---- MODULE Spec2Model ----
(***************************************************************************)
(* Flight segmentation of ADS-B position reports, chunk by chunk           *)
(* (ads_b_data_pre_processing/add_flight_id_in_polars.py).                 *)
(*                                                                         *)
(* A dataframe is a sequence of rows (records).  Timestamps are whole      *)
(* minutes.  A null cell of an integer column is NullId, a null airport is *)
(* NullAirport.  The unique_flight_identifier string                       *)
(* "<icao>_<departure>_<arrival>" is the triple of its three parts.        *)
(***************************************************************************)
EXTENDS Integers, Sequences, FiniteSets

\* ------------------------------------------------------------------------
\* Bounds of the model
\* ------------------------------------------------------------------------
\* aircraft are 1..NumAircraft
NumAircraft == 2
\* a run reads at most MaxBlocks blocks of records in all
MaxBlocks == 4
\* a run processes at most MaxChunks chunks
MaxChunks == 2
\* a run of a single chunk reads at most MaxSingleChunkBlocks blocks, of at
\* most MaxBlockLength records each
MaxSingleChunkBlocks == 2
MaxBlockLength == 4
\* a chunk with missing airports holds at most MaxMissingBlocks blocks
MaxMissingBlocks == 2
\* a run over several days reads at most MaxDayBlocks blocks in all
MaxDayBlocks == 2
\* the second chunk of a run at the lookback horizon holds at most
\* MaxLookbackBlocks blocks
MaxLookbackBlocks == 2
\* a run of close chunks processes at most MaxQuietChunks chunks, of
\* MaxQuietBlocks blocks in all
MaxQuietChunks == 3
MaxQuietBlocks == 4

\* ------------------------------------------------------------------------
\* Program constants
\* ------------------------------------------------------------------------
hard_gap_hours == 6
lookback_hours == 6
latest_flights_hours == 6
min_number_of_consecutive_datapoints == 3
MinutesPerHour == 60
HoursPerDay == 24
NullId == -1
NullAirport == "null"

\* the origin-destination pairs the aircraft of the model fly: aircraft 1
\* between two UK airports in both directions, every other aircraft between
\* two airports outside the UK
Routes == {<<"EGLL", "EGPH">>, <<"EGPH", "EGLL">>, <<"KJFK", "KLAX">>}
RoutesOf(icao_address) ==
    IF icao_address = 1 THEN {<<"EGLL", "EGPH">>, <<"EGPH", "EGLL">>}
    ELSE {<<"KJFK", "KLAX">>}
\* numbers of records of a block, one minute apart
BlockLengths == {1, 4}
\* minutes between the last record read so far and the first of a block
BlockGaps == {1, hard_gap_hours * MinutesPerHour + 1}

\* ------------------------------------------------------------------------
\* Dataframe helpers
\* ------------------------------------------------------------------------
Max(S) == CHOOSE x \in S : \A y \in S : y <= x
Min(S) == CHOOSE x \in S : \A y \in S : x <= y

\* DataFrame.sort(["icao_address", "timestamp"])
RowLE(a, b) ==
    \/ a.icao_address < b.icao_address
    \/ a.icao_address = b.icao_address /\ a.timestamp <= b.timestamp

RECURSIVE InsertRow(_, _)
InsertRow(sorted, row) ==
    IF sorted = <<>> THEN <<row>>
    ELSE IF RowLE(sorted[Len(sorted)], row) THEN Append(sorted, row)
    ELSE Append(InsertRow(SubSeq(sorted, 1, Len(sorted) - 1), row), sorted[Len(sorted)])

RECURSIVE SortByAircraftAndTime(_)
SortByAircraftAndTime(df) ==
    IF df = <<>> THEN <<>>
    ELSE InsertRow(SortByAircraftAndTime(SubSeq(df, 1, Len(df) - 1)), df[Len(df)])

\* an id per key in place of an id per run: the number of distinct keys met
\* before the key of the row was first met
RleIdByKey(keys) ==
    [i \in 1..Len(keys) |->
        Cardinality({keys[j] : j \in {k \in 1..i : \A l \in 1..k : keys[l] # keys[i]}})]

\* Expr.rle_id() over the key column: 0 for the first row, one more at every
\* row whose key differs from the key of the row before it
RleId(keys) ==
    [i \in 1..Len(keys) |-> Cardinality({j \in 2..i : keys[j] # keys[j - 1]})]

\* ------------------------------------------------------------------------
\* filter_and_fill_origin_destination_pair
\* ------------------------------------------------------------------------
\* fill_null(strategy="forward").fill_null(strategy="backward").over("icao_address")
FillAirport(df, col, i) ==
    LET same(j) == df[j].icao_address = df[i].icao_address /\ df[j][col] # NullAirport
        before == {j \in 1..i : same(j)}
        after == {j \in i..Len(df) : same(j)}
    IN  IF before # {} THEN df[Max(before)][col]
        ELSE IF after # {} THEN df[Min(after)][col]
        ELSE NullAirport

\* the filter that drops a row only when both airports are missing
HasOriginOrDestination(row) ==
    \/ row.departure_airport_icao # NullAirport
    \/ row.arrival_airport_icao # NullAirport


HasOriginAndDestination(row) ==
    row.departure_airport_icao # NullAirport /\ row.arrival_airport_icao # NullAirport

filter_and_fill_origin_destination_pair(flight_dataframe) ==
    LET filtered == SelectSeq(flight_dataframe, HasOriginAndDestination)
    IN  [i \in 1..Len(filtered) |->
            [filtered[i] EXCEPT
                !.departure_airport_icao = FillAirport(filtered, "departure_airport_icao", i),
                !.arrival_airport_icao = FillAirport(filtered, "arrival_airport_icao", i)]]

\* ------------------------------------------------------------------------
\* add_unique_flight_identifier
\* ------------------------------------------------------------------------
UniqueFlightIdentifier(row) ==
    <<row.icao_address, row.departure_airport_icao, row.arrival_airport_icao>>

\* ------------------------------------------------------------------------
\* remove_erroneous_single_point_flights
\* ------------------------------------------------------------------------
\* rows are [row, first_flight_id]
CountOfFlight(df, id) == Cardinality({i \in 1..Len(df) : df[i].first_flight_id = id})

\* the filter with count >= 3 in place of count > 3
HasHighCountOrEqual(df, r) ==
    CountOfFlight(df, r.first_flight_id) >= min_number_of_consecutive_datapoints

HasHighCount(df, r) ==
    CountOfFlight(df, r.first_flight_id) > min_number_of_consecutive_datapoints

\* the filter without the renumbering: the kept rows keep their ids
remove_erroneous_single_point_flights_keeping_ids(flight_dataframe_with_flight_id) ==
    LET sorted == SortByAircraftAndTime(flight_dataframe_with_flight_id)
        keep(r) == HasHighCount(sorted, r)
    IN  SelectSeq(sorted, keep)

\* the filter with a renumbering of the kept candidates: one id per kept
\* candidate, whatever its key
remove_erroneous_single_point_flights_renumbering_candidates(flight_dataframe_with_flight_id) ==
    LET sorted == SortByAircraftAndTime(flight_dataframe_with_flight_id)
        keep(r) == HasHighCount(sorted, r)
        kept == SelectSeq(sorted, keep)
        ids == RleId([i \in 1..Len(kept) |-> kept[i].first_flight_id])
    IN  [i \in 1..Len(kept) |-> [kept[i] EXCEPT !.first_flight_id = ids[i]]]


remove_erroneous_single_point_flights(flight_dataframe_with_flight_id) ==
    LET sorted == SortByAircraftAndTime(flight_dataframe_with_flight_id)
        keep(r) == HasHighCount(sorted, r)
        kept == SelectSeq(sorted, keep)
        ids == RleId([i \in 1..Len(kept) |-> UniqueFlightIdentifier(kept[i])])
    IN  [i \in 1..Len(kept) |-> [kept[i] EXCEPT !.first_flight_id = ids[i]]]

\* ------------------------------------------------------------------------
\* segment_dataframe_into_new_and_continued_flights
\* ------------------------------------------------------------------------
FirstTimestamp(df, ufi) ==
    Min({df[i].timestamp : i \in {j \in 1..Len(df) : UniqueFlightIdentifier(df[j]) = ufi}})

\* the groups whose first timestamp is less than 6 hours after the smallest
NextFlightPerAircraftBeforeHorizon(df) ==
    LET ufis == {UniqueFlightIdentifier(df[i]) : i \in 1..Len(df)}
        earliest == Min({FirstTimestamp(df, u) : u \in ufis})
    IN  {u \in ufis :
            FirstTimestamp(df, u) < earliest + lookback_hours * MinutesPerHour}

\* the (icao_address, unique_flight_identifier) groups whose first timestamp
\* is at most 6 hours after the smallest first timestamp
NextFlightPerAircraft(df) ==
    LET ufis == {UniqueFlightIdentifier(df[i]) : i \in 1..Len(df)}
        earliest == Min({FirstTimestamp(df, u) : u \in ufis})
    IN  {u \in ufis :
            FirstTimestamp(df, u) <= earliest + lookback_hours * MinutesPerHour}

\* the inner join kept to the rows of the previous flight info whose
\* last_timestamp is at most the lookback before the first timestamp of
\* their group in the chunk
ContinuedFlightsInfoSinceLastTimestamp(previous, df, next) ==
    LET matched(p) ==
            /\ UniqueFlightIdentifier(p) \in next
            /\ FirstTimestamp(df, UniqueFlightIdentifier(p)) - p.last_timestamp
                   <= lookback_hours * MinutesPerHour
        matches == SelectSeq(previous, matched)
    IN  [k \in 1..Len(matches) |->
            [icao_address |-> matches[k].icao_address,
             unique_flight_identifier |-> UniqueFlightIdentifier(matches[k]),
             timestamp |-> FirstTimestamp(df, UniqueFlightIdentifier(matches[k])),
             flight_id |-> matches[k].flight_id]]


\* the inner join of the groups with the previous flight info on
\* (icao_address, unique_flight_identifier): one row for every row of the
\* previous flight info whose identifier is one of the groups, with the
\* first timestamp of the group as its timestamp
ContinuedFlightsInfo(previous, df, next) ==
    LET matched(p) == UniqueFlightIdentifier(p) \in next
        matches == SelectSeq(previous, matched)
    IN  [k \in 1..Len(matches) |->
            [icao_address |-> matches[k].icao_address,
             unique_flight_identifier |-> UniqueFlightIdentifier(matches[k]),
             timestamp |-> FirstTimestamp(df, UniqueFlightIdentifier(matches[k])),
             flight_id |-> matches[k].flight_id]]

\* the flight ids the left join gives a row, in the order of the rows of the
\* previous flight info; <<NullId>> for a row without a match
JoinedFlightIds(previous, df, next, i) ==
    LET joined(c) == /\ c.unique_flight_identifier = UniqueFlightIdentifier(df[i])
                     /\ c.timestamp = df[i].timestamp
        matches == SelectSeq(ContinuedFlightsInfo(previous, df, next), joined)
    IN  IF matches # <<>>
        THEN [k \in 1..Len(matches) |-> matches[k].flight_id]
        ELSE <<NullId>>

RECURSIVE LeftJoinFrom(_, _, _, _)
LeftJoinFrom(previous, df, next, i) ==
    IF i > Len(df) THEN <<>>
    ELSE LET ids == JoinedFlightIds(previous, df, next, i)
         IN  [k \in 1..Len(ids) |->
                [icao_address |-> df[i].icao_address,
                 timestamp |-> df[i].timestamp,
                 departure_airport_icao |-> df[i].departure_airport_icao,
                 arrival_airport_icao |-> df[i].arrival_airport_icao,
                 flight_id |-> ids[k]]]
             \o LeftJoinFrom(previous, df, next, i + 1)

\* pl.col("flight_id").fill_null(strategy="forward").over("icao_address")
FillFlightIdForward(df) ==
    [i \in 1..Len(df) |->
        IF df[i].flight_id # NullId THEN df[i]
        ELSE LET before == {j \in 1..i : /\ df[j].icao_address = df[i].icao_address
                                         /\ df[j].flight_id # NullId}
             IN  IF before = {} THEN df[i]
                 ELSE [df[i] EXCEPT !.flight_id = df[Max(before)].flight_id]]

FlightDataframeWithPreviousFlightId(previous, df) ==
    IF df = <<>> THEN <<>>
    ELSE FillFlightIdForward(LeftJoinFrom(previous, df, NextFlightPerAircraft(df), 1))

HasFlightId(row) == row.flight_id # NullId
HasNoFlightId(row) == row.flight_id = NullId

DropFlightId(row) ==
    [icao_address |-> row.icao_address,
     timestamp |-> row.timestamp,
     departure_airport_icao |-> row.departure_airport_icao,
     arrival_airport_icao |-> row.arrival_airport_icao]

ContinuedFlights(previous, df) ==
    SelectSeq(FlightDataframeWithPreviousFlightId(previous, df), HasFlightId)

NewFlights(previous, df) ==
    LET new == SelectSeq(FlightDataframeWithPreviousFlightId(previous, df), HasNoFlightId)
    IN  [i \in 1..Len(new) |-> DropFlightId(new[i])]

\* ------------------------------------------------------------------------
\* seperate_flight_id_for_large_time_gaps
\* ------------------------------------------------------------------------
\* FlightSegmentationConfig(): the defaults of the dataclass
FlightSegmentationConfig == [hard_gap_hours |-> hard_gap_hours]

\* the rows before row i that have its first_flight_id (.over("first_flight_id"))
EarlierRowsOfFlight(df, i) ==
    {j \in 1..(i - 1) : df[j].first_flight_id = df[i].first_flight_id}

\* timestamp.diff() is null on the first row of each first_flight_id
TimeDiffIsNull(df, i) == EarlierRowsOfFlight(df, i) = {}

\* timestamp.diff().gt(config.hard_gap_hours * pl.duration(hours=1)), where not null
TimeGapFlightIncrement(df, config, i) ==
    /\ ~TimeDiffIsNull(df, i)
    /\ df[i].timestamp - df[Max(EarlierRowsOfFlight(df, i))].timestamp
          > config.hard_gap_hours * MinutesPerHour

\* cum_sum() over the whole dataframe: a null stays null and adds nothing
CumSumOfIncrement(df, config, i) ==
    IF TimeDiffIsNull(df, i) THEN NullId
    ELSE Cardinality({j \in 1..i : TimeGapFlightIncrement(df, config, j)})

\* first_flight_id + time_gap_flight_increment: null when the increment is null
FinalFlightId(df, config, i) ==
    IF CumSumOfIncrement(df, config, i) = NullId THEN NullId
    ELSE df[i].first_flight_id + CumSumOfIncrement(df, config, i)

seperate_flight_id_for_large_time_gaps(flight_dataframe_with_flight_id, config) ==
    LET sorted == SortByAircraftAndTime(flight_dataframe_with_flight_id)
    IN  [i \in 1..Len(sorted) |->
            [icao_address |-> sorted[i].icao_address,
             timestamp |-> sorted[i].timestamp,
             departure_airport_icao |-> sorted[i].departure_airport_icao,
             arrival_airport_icao |-> sorted[i].arrival_airport_icao,
             flight_id |-> FinalFlightId(sorted, config, i)]]

\* ------------------------------------------------------------------------
\* assign_flight_id_to_unique_flights
\* ------------------------------------------------------------------------
FlightIdsOf(df) == {df[i].flight_id : i \in 1..Len(df)} \ {NullId}

\* the new flight ids numbered from 1 when there is no previous flight info
NextFlightIdFromOne(previous) ==
    IF previous = <<>> THEN 1 ELSE Max(FlightIdsOf(previous)) + 1


\* previous_flight_info_dataframe.select(pl.col("flight_id").max()).item() + 1;
\* max() skips the null flight ids (a flight info that is not empty holds a
\* flight id that is not null: the last row of a flight is never its first)
NextFlightId(previous) ==
    IF previous = <<>> THEN 0 ELSE Max(FlightIdsOf(previous)) + 1

\* the new flights sorted, with first_flight_id the rle_id of
\* (icao_address, unique_flight_identifier)
WithFirstFlightId(new) ==
    LET sorted == SortByAircraftAndTime(new)
        ids == RleId([i \in 1..Len(sorted) |-> UniqueFlightIdentifier(sorted[i])])
    IN  [i \in 1..Len(sorted) |->
            [icao_address |-> sorted[i].icao_address,
             timestamp |-> sorted[i].timestamp,
             departure_airport_icao |-> sorted[i].departure_airport_icao,
             arrival_airport_icao |-> sorted[i].arrival_airport_icao,
             first_flight_id |-> ids[i]]]

AddNextFlightId(df, next_flight_id) ==
    [i \in 1..Len(df) |->
        [df[i] EXCEPT !.first_flight_id = df[i].first_flight_id + next_flight_id]]

\* the two streams of a chunk: the rows of the continued flights, and the
\* rows of the new flights once filtered, renumbered and split at large gaps
ContinuedStream(flight_dataframe, previous) ==
    LET filled == filter_and_fill_origin_destination_pair(
                      SortByAircraftAndTime(flight_dataframe))
    IN  IF previous = <<>> THEN <<>> ELSE ContinuedFlights(previous, filled)

NewCandidates(flight_dataframe, previous) ==
    LET filled == filter_and_fill_origin_destination_pair(
                      SortByAircraftAndTime(flight_dataframe))
    IN  WithFirstFlightId(IF previous = <<>> THEN filled ELSE NewFlights(previous, filled))

NewStream(flight_dataframe, config, previous) ==
    seperate_flight_id_for_large_time_gaps(
        AddNextFlightId(
            remove_erroneous_single_point_flights(NewCandidates(flight_dataframe, previous)),
            NextFlightId(previous)),
        config)

assign_flight_id_to_unique_flights(flight_dataframe, config, previous) ==
    IF flight_dataframe = <<>> THEN <<>>
    ELSE SortByAircraftAndTime(
             ContinuedStream(flight_dataframe, previous)
             \o NewStream(flight_dataframe, config, previous))

\* ------------------------------------------------------------------------
\* create_flight_info_dataframe_for_latest_flights
\* ------------------------------------------------------------------------
FlightGroupOf(row) ==
    [flight_id |-> row.flight_id,
     icao_address |-> row.icao_address,
     departure_airport_icao |-> row.departure_airport_icao,
     arrival_airport_icao |-> row.arrival_airport_icao]

LastTimestamp(df, group) ==
    Max({df[i].timestamp : i \in {j \in 1..Len(df) : FlightGroupOf(df[j]) = group}})

\* the groups whose last timestamp is less than 6 hours before the largest
LatestFlightsInfoAfterThreshold(output) ==
    IF output = <<>> THEN {}
    ELSE LET max_timestamp == Max({output[i].timestamp : i \in 1..Len(output)})
             threshold == max_timestamp - latest_flights_hours * MinutesPerHour
             groups == {FlightGroupOf(output[i]) : i \in 1..Len(output)}
         IN  {[flight_id |-> g.flight_id,
               icao_address |-> g.icao_address,
               departure_airport_icao |-> g.departure_airport_icao,
               arrival_airport_icao |-> g.arrival_airport_icao,
               last_timestamp |-> LastTimestamp(output, g)] :
                 g \in {h \in groups : LastTimestamp(output, h) > threshold}}


\* the groups whose last timestamp is within 6 hours of the largest timestamp
LatestFlightsInfo(output) ==
    IF output = <<>> THEN {}
    ELSE LET max_timestamp == Max({output[i].timestamp : i \in 1..Len(output)})
             threshold == max_timestamp - latest_flights_hours * MinutesPerHour
             groups == {FlightGroupOf(output[i]) : i \in 1..Len(output)}
         IN  {[flight_id |-> g.flight_id,
               icao_address |-> g.icao_address,
               departure_airport_icao |-> g.departure_airport_icao,
               arrival_airport_icao |-> g.arrival_airport_icao,
               last_timestamp |-> LastTimestamp(output, g)] :
                 g \in {h \in groups : LastTimestamp(output, h) >= threshold}}

\* group_by does not fix the order of its rows.  Only the order of the rows
\* of one unique_flight_identifier is ever observed (by the joins of the next
\* chunk), so the dataframes that can result are taken identifier by
\* identifier, the rows of one identifier in any order.
RowPermutations(S) ==
    {p \in [1..Cardinality(S) -> S] : \A i, j \in 1..Cardinality(S) : p[i] = p[j] => i = j}

RECURSIVE RowOrders(_)
RowOrders(info) ==
    IF info = {} THEN {<<>>}
    ELSE LET u == UniqueFlightIdentifier(CHOOSE r \in info : TRUE)
             group == {r \in info : UniqueFlightIdentifier(r) = u}
         IN  {p \o rest : p \in RowPermutations(group), rest \in RowOrders(info \ group)}

create_flight_info_dataframe_for_latest_flights(output_dataframe) ==
    RowOrders(LatestFlightsInfo(output_dataframe))

\* ------------------------------------------------------------------------
\* remove_non_uk_flights and the day partitions
\* ------------------------------------------------------------------------
\* list_of_uk_airports(): the airports of country GB in the airport data
list_of_uk_airports == {"EGLL", "EGPH"}

IsUkFlight(row) ==
    \/ row.departure_airport_icao \in list_of_uk_airports
    \/ row.arrival_airport_icao \in list_of_uk_airports

remove_non_uk_flights(output_dataframe) == SelectSeq(output_dataframe, IsUkFlight)

\* timestamp.dt.ordinal_day(), timestamps counting the minutes of the year
OrdinalDay(timestamp) == (timestamp \div (HoursPerDay * MinutesPerHour)) + 1

WithFlightDay(df) ==
    [i \in 1..Len(df) |->
        [icao_address |-> df[i].icao_address,
         timestamp |-> df[i].timestamp,
         departure_airport_icao |-> df[i].departure_airport_icao,
         arrival_airport_icao |-> df[i].arrival_airport_icao,
         flight_id |-> df[i].flight_id,
         flight_day |-> OrdinalDay(df[i].timestamp)]]

\* str(day).zfill(3): the decimal digits of the day, zero-padded to three
DayStr(day) == <<day \div 100, (day \div 10) % 10, day % 10>>

\* a partition that takes the rows of every day
RowsOfEveryDay(df, day) == df

\* partition_by("flight_day"): the rows of one day, in their order
RowsOfDay(df, day) ==
    LET of_day(row) == row.flight_day = day
    IN  SelectSeq(df, of_day)

\* the day files written without reading the file that exists
WriteDayFilesOverwriting(files, output_dataframe_uk_flights) ==
    LET df == WithFlightDay(output_dataframe_uk_flights)
        days == {df[i].flight_day : i \in 1..Len(df)}
        written == {DayStr(day) : day \in days}
        day_of(day_str) == CHOOSE day \in days : DayStr(day) = day_str
    IN  [day_str \in DOMAIN files \cup written |->
            IF day_str \notin written THEN files[day_str]
            ELSE RowsOfDay(df, day_of(day_str))]

\* the day files after the rows of a chunk are written: a file that exists
\* is read and written back with the rows of the chunk after its own.  A day
\* file UK_flights_day_<day_str>.parquet is named by its day_str.
WriteDayFiles(files, output_dataframe_uk_flights) ==
    LET df == WithFlightDay(output_dataframe_uk_flights)
        days == {df[i].flight_day : i \in 1..Len(df)}
        written == {DayStr(day) : day \in days}
        day_of(day_str) == CHOOSE day \in days : DayStr(day) = day_str
    IN  [day_str \in DOMAIN files \cup written |->
            IF day_str \notin written THEN files[day_str]
            ELSE IF day_str \in DOMAIN files
                 THEN files[day_str] \o RowsOfDay(df, day_of(day_str))
                 ELSE RowsOfDay(df, day_of(day_str))]

\* ------------------------------------------------------------------------
\* The input files of a chunk
\* ------------------------------------------------------------------------
\* A block: one aircraft reporting `length` positions one minute apart on one
\* route, the first of them `gap` minutes after the last record read so far.
Blocks ==
    {b \in [icao_address : 1..NumAircraft, route : Routes,
            length : BlockLengths, gap : BlockGaps] :
        b.route \in RoutesOf(b.icao_address)}

SingleChunkBlocks ==
    {b \in [icao_address : 1..NumAircraft, route : Routes,
            length : 1..MaxBlockLength, gap : BlockGaps] :
        b.route \in RoutesOf(b.icao_address)}

BlockRows(block, clock) ==
    [i \in 1..block.length |->
        [icao_address |-> block.icao_address,
         timestamp |-> clock + block.gap + i - 1,
         departure_airport_icao |-> block.route[1],
         arrival_airport_icao |-> block.route[2]]]

BlockEnd(block, clock) == clock + block.gap + block.length - 1

RECURSIVE RowsOfBlocks(_, _)
RowsOfBlocks(blocks, clock) ==
    IF blocks = <<>> THEN <<>>
    ELSE BlockRows(Head(blocks), clock)
         \o RowsOfBlocks(Tail(blocks), BlockEnd(Head(blocks), clock))

BlockSeqs(blocks, n) == UNION {[1..k -> blocks] : k \in 0..n}

LastTimeOf(df, clock) ==
    IF df = <<>> THEN clock ELSE Max({df[i].timestamp : i \in 1..Len(df)})

\* ------------------------------------------------------------------------
\* identify_uk_flights: the chunk loop
\* ------------------------------------------------------------------------
VARIABLES
    \* the rows read for the last chunk
    flight_dataframe,
    \* the flight info the last chunk was given
    previous_flight_info_dataframe,
    \* the rows the last chunk produced
    output_dataframe,
    \* the flight info for the next chunk
    previous_chunk_flight_info_dataframe,
    \* the outputs of the chunks before the last one, oldest first
    earlier_outputs,
    \* the rows of all chunks read so far, in reading order
    all_input,
    \* the day files written so far, by day
    day_files,
    \* the number of blocks read so far
    blocks_read,
    \* the number of chunks processed so far
    chunks_done,
    \* the config identify_uk_flights was called with
    config

vars == <<flight_dataframe, previous_flight_info_dataframe, output_dataframe,
          previous_chunk_flight_info_dataframe, earlier_outputs, all_input,
          day_files, blocks_read, chunks_done, config>>

\* the state before the loop, whatever the config
InitOutput ==
    /\ flight_dataframe = <<>>
    /\ previous_flight_info_dataframe = <<>>
    /\ output_dataframe = <<>>
    /\ previous_chunk_flight_info_dataframe = <<>>
    /\ earlier_outputs = <<>>
    /\ all_input = <<>>
    /\ day_files = <<>>
    /\ blocks_read = 0
    /\ chunks_done = 0

\* the module run as a script calls identify_uk_flights with the defaults
Init ==
    /\ InitOutput
    /\ config = FlightSegmentationConfig

\* one pass of the loop over file_chunks, the files of the chunk read as the
\* dataframe df: the flight ids are assigned with FlightSegmentationConfig(),
\* not with the config of the caller
ProcessDataframe(df, files) ==
    \E out \in {assign_flight_id_to_unique_flights(
                    df, FlightSegmentationConfig, previous_chunk_flight_info_dataframe)} :
        /\ flight_dataframe' = df
        /\ previous_flight_info_dataframe' = previous_chunk_flight_info_dataframe
        /\ output_dataframe' = out
        /\ previous_chunk_flight_info_dataframe'
               \in create_flight_info_dataframe_for_latest_flights(out)
        /\ earlier_outputs' =
               IF chunks_done = 0 THEN <<>> ELSE Append(earlier_outputs, output_dataframe)
        /\ all_input' = all_input \o df
        /\ day_files' = WriteDayFiles(day_files, remove_non_uk_flights(out))
        /\ blocks_read' = blocks_read + files
        /\ chunks_done' = chunks_done + 1
        /\ UNCHANGED config

\* the files of the chunk hold the rows of `blocks`
ProcessFiles(blocks) ==
    \E df \in {RowsOfBlocks(blocks, LastTimeOf(all_input, 0))} :
        ProcessDataframe(df, Len(blocks))

ProcessChunk ==
    /\ chunks_done < MaxChunks
    /\ \E blocks \in BlockSeqs(Blocks, MaxBlocks - blocks_read) : ProcessFiles(blocks)

Next == ProcessChunk

Spec == Init /\ [][Next]_vars

\* A run of a single chunk, for what one call of
\* assign_flight_id_to_unique_flights does to a chunk: the chunk has fewer
\* blocks, of every length up to MaxBlockLength.
ProcessSingleChunk ==
    /\ chunks_done = 0
    /\ \E blocks \in BlockSeqs(SingleChunkBlocks, MaxSingleChunkBlocks) : ProcessFiles(blocks)

NextSingleChunk == ProcessSingleChunk

SpecSingleChunk == Init /\ [][NextSingleChunk]_vars

\* A run of a single chunk for a caller that passes its own config to
\* identify_uk_flights: the default hard gap, or twice the default.
CallerHardGapHours == {hard_gap_hours, 2 * hard_gap_hours}

InitCallerConfig ==
    /\ InitOutput
    /\ config \in {[hard_gap_hours |-> h] : h \in CallerHardGapHours}

SpecCallerConfig == InitCallerConfig /\ [][NextSingleChunk]_vars

\* A run of a single chunk of three blocks, short and long, close and far
\* apart: a short block between two long blocks of one flight is noise
\* between two candidate flights of the same key.
ProcessNoiseChunk ==
    /\ chunks_done = 0
    /\ \E first, middle, last \in Blocks : ProcessFiles(<<first, middle, last>>)

NextNoise == ProcessNoiseChunk

SpecNoise == Init /\ [][NextNoise]_vars

\* A run of two chunks at the lookback horizon: a block starts exactly 6 hours
\* after the last record read so far, or a minute later; the first chunk
\* holds one block at most.
LookbackGaps == {lookback_hours * MinutesPerHour, lookback_hours * MinutesPerHour + 1}

LookbackBlocks ==
    {b \in [icao_address : 1..NumAircraft, route : Routes,
            length : BlockLengths, gap : LookbackGaps] :
        b.route \in RoutesOf(b.icao_address)}

ProcessFirstChunk ==
    /\ chunks_done = 0
    /\ \E blocks \in BlockSeqs(LookbackBlocks, 1) : ProcessFiles(blocks)

ProcessLookbackChunk ==
    /\ chunks_done = 1
    /\ \E blocks \in BlockSeqs(LookbackBlocks, MaxLookbackBlocks) : ProcessFiles(blocks)

NextLookback == ProcessFirstChunk \/ ProcessLookbackChunk

SpecLookback == Init /\ [][NextLookback]_vars

\* A run of two chunks at the lookback horizon whose second chunk holds two
\* blocks: a flight of the first chunk and another flight, a flight lost to
\* the Noise Filter and one that passes it.
ProcessTwoBlocksAtHorizon ==
    /\ chunks_done = 1
    /\ \E first, second \in LookbackBlocks : ProcessFiles(<<first, second>>)

NextHorizon == ProcessFirstChunk \/ ProcessTwoBlocksAtHorizon

SpecHorizon == Init /\ [][NextHorizon]_vars

\* A run over several days: a block starts a minute or a day after the last
\* record read so far.
DayGaps == {1, HoursPerDay * MinutesPerHour}

DayBlocks ==
    {b \in [icao_address : 1..NumAircraft, route : Routes,
            length : BlockLengths, gap : DayGaps] :
        b.route \in RoutesOf(b.icao_address)}

ProcessDayChunk ==
    /\ chunks_done < MaxChunks
    /\ \E blocks \in BlockSeqs(DayBlocks, MaxDayBlocks - blocks_read) : ProcessFiles(blocks)

NextDays == ProcessDayChunk

SpecDays == Init /\ [][NextDays]_vars

\* A run of a single chunk whose files miss airports: a block reports all its
\* positions without departure airport, without arrival airport, without
\* both, or with both.
MissingPatterns == {"none", "departure", "arrival", "both"}

MissingBlocks ==
    {b \in [icao_address : 1..NumAircraft, route : Routes, length : BlockLengths,
            gap : BlockGaps, missing : MissingPatterns] :
        b.route \in RoutesOf(b.icao_address)}

MissingBlockRows(block, clock) ==
    [i \in 1..block.length |->
        [icao_address |-> block.icao_address,
         timestamp |-> clock + block.gap + i - 1,
         departure_airport_icao |->
             IF block.missing \in {"departure", "both"} THEN NullAirport ELSE block.route[1],
         arrival_airport_icao |->
             IF block.missing \in {"arrival", "both"} THEN NullAirport ELSE block.route[2]]]

RECURSIVE RowsOfMissingBlocks(_, _)
RowsOfMissingBlocks(blocks, clock) ==
    IF blocks = <<>> THEN <<>>
    ELSE MissingBlockRows(Head(blocks), clock)
         \o RowsOfMissingBlocks(Tail(blocks), BlockEnd(Head(blocks), clock))

ProcessChunkWithMissingAirports ==
    /\ chunks_done = 0
    /\ \E blocks \in BlockSeqs(MissingBlocks, MaxMissingBlocks) :
       \E df \in {RowsOfMissingBlocks(blocks, 0)} :
           ProcessDataframe(df, Len(blocks))

NextMissingAirports == ProcessChunkWithMissingAirports

SpecMissingAirports == Init /\ [][NextMissingAirports]_vars

\* ------------------------------------------------------------------------
\* What the claims speak of
\* ------------------------------------------------------------------------
\* a position record without its flight id
RecordOf(row) == DropFlightId(row)

RECURSIVE Concat(_)
Concat(dfs) == IF dfs = <<>> THEN <<>> ELSE Head(dfs) \o Concat(Tail(dfs))

\* the output rows of the chunks before the last one, and of all chunks
EarlierOutput == Concat(earlier_outputs)
AccumulatedOutput == EarlierOutput \o output_dataframe

\* the new flights of the last chunk, as the Gap Splitter left them
LastNewStream ==
    NewStream(flight_dataframe, FlightSegmentationConfig, previous_flight_info_dataframe)
LastNewCandidates == NewCandidates(flight_dataframe, previous_flight_info_dataframe)

RowsOfFlight(df, id) == {i \in 1..Len(df) : df[i].flight_id = id}
TimestampsOfFlight(df, id) == {df[i].timestamp : i \in RowsOfFlight(df, id)}

\* C1: every flight id of a new flight of a chunk was given to no flight of
\* an earlier chunk.
C1_NewFlightIdsNeverReused ==
    FlightIdsOf(LastNewStream) \cap FlightIdsOf(EarlierOutput) = {}

\* C2: after each chunk the offset for the new flights of the next chunk is
\* one more than the largest flight id produced in all chunks so far.
C2_NextFlightIdIsMaxSoFarPlusOne ==
    \A ids \in {FlightIdsOf(AccumulatedOutput)} :
        (chunks_done > 0 /\ ids # {}) =>
            NextFlightId(previous_chunk_flight_info_dataframe) = Max(ids) + 1

\* the timestamps of the rows of the last chunk read that have the
\* identifier of an open tail
ChunkTimestampsOf(tail) ==
    {flight_dataframe[i].timestamp :
        i \in {j \in 1..Len(flight_dataframe) :
                  UniqueFlightIdentifier(flight_dataframe[j]) = UniqueFlightIdentifier(tail)}}

IsContinuationOf(tail) ==
    /\ tail.flight_id # NullId
    /\ ChunkTimestampsOf(tail) # {}
    /\ Min(ChunkTimestampsOf(tail)) - tail.last_timestamp
          <= lookback_hours * MinutesPerHour

\* the flight ids under which a record of the chunk is output
OutputFlightIdsOf(ufi, timestamp) ==
    {output_dataframe[i].flight_id :
        i \in {j \in 1..Len(output_dataframe) :
                  /\ UniqueFlightIdentifier(output_dataframe[j]) = ufi
                  /\ output_dataframe[j].timestamp = timestamp}}

\* C3: when the chunk before ended with an open tail with flight id f and the
\* earliest record of its aircraft and OD key in this chunk is at most 6 hours
\* after the tail, every record of that aircraft and OD key in this chunk is
\* output with flight id f, and with no other flight id.
C3_ContinuationKeepsFlightId ==
    \A k \in 1..Len(previous_flight_info_dataframe) :
        \A tail \in {previous_flight_info_dataframe[k]} :
            IsContinuationOf(tail) =>
                \A t \in ChunkTimestampsOf(tail) :
                    OutputFlightIdsOf(UniqueFlightIdentifier(tail), t) = {tail.flight_id}

\* two timestamps, one right after the other in a set of timestamps
Adjacent(timestamps, t1, t2) ==
    /\ t1 < t2
    /\ ~\E t \in timestamps : t1 < t /\ t < t2

\* C4: in the accumulated output, two time-adjacent records with the same
\* flight id are at most the hard gap (6 hours) apart.
C4_NoHardGapInsideFlight ==
    \A out \in {AccumulatedOutput} :
        \A id \in FlightIdsOf(out) :
            \A timestamps \in {TimestampsOfFlight(out, id)} :
                \A t1, t2 \in timestamps :
                    Adjacent(timestamps, t1, t2) =>
                        t2 - t1 <= hard_gap_hours * MinutesPerHour

\* the records of a dataframe, and its flights as sets of records
RecordsOf(df) == {RecordOf(df[i]) : i \in 1..Len(df)}
FlightsOf(df) ==
    {{RecordOf(df[i]) : i \in RowsOfFlight(df, id)} : id \in FlightIdsOf(df)}

\* all the input read so far, processed as a single chunk
SingleChunkOutput ==
    assign_flight_id_to_unique_flights(all_input, FlightSegmentationConfig, <<>>)

\* C5: the chunks of a run give the same output records, in the same
\* flights, as their input processed as one chunk.
C5_ChunkingDoesNotChangeFlights ==
    \A chunked \in {AccumulatedOutput} :
        \A single \in {SingleChunkOutput} :
            /\ RecordsOf(chunked) = RecordsOf(single)
            /\ FlightsOf(chunked) = FlightsOf(single)

\* C6: over the whole run all records with the same flight id have one
\* aircraft and one OD key.
C6_OneAircraftAndODKeyPerFlight ==
    \A out \in {AccumulatedOutput} :
        \A i, j \in 1..Len(out) :
            (out[i].flight_id # NullId /\ out[i].flight_id = out[j].flight_id)
            => UniqueFlightIdentifier(out[i]) = UniqueFlightIdentifier(out[j])

\* C7: every row of the output of a chunk has a flight id that is not null
\* and not negative.
C7_EveryOutputRowHasFlightId ==
    \A i \in 1..Len(output_dataframe) :
        output_dataframe[i].flight_id # NullId /\ output_dataframe[i].flight_id >= 0

\* C8: after every chunk the flight info holds at most one open flight for
\* each aircraft and OD key.
C8_OneOpenTailPerAircraftAndODKey ==
    \A i, j \in 1..Len(previous_chunk_flight_info_dataframe) :
        \A a \in {previous_chunk_flight_info_dataframe[i]} :
            \A b \in {previous_chunk_flight_info_dataframe[j]} :
                (/\ a.flight_id # NullId
                 /\ b.flight_id # NullId
                 /\ UniqueFlightIdentifier(a) = UniqueFlightIdentifier(b))
                => a.flight_id = b.flight_id

\* the rows of a candidate flight, and what the Noise Filter keeps of them
CandidateIds(df) == {df[i].first_flight_id : i \in 1..Len(df)}
RecordsOfCandidate(df, c) ==
    {RecordOf(df[i]) : i \in {j \in 1..Len(df) : df[j].first_flight_id = c}}

\* C9: the Noise Filter drops every record of a candidate flight with 3 or
\* fewer records and keeps every record of a candidate with 4 or more.
C9_NoiseFilterDropsUpToThreeRecords ==
    \A candidates \in {LastNewCandidates} :
        \A kept \in {RecordsOf(remove_erroneous_single_point_flights(candidates))} :
            \A c \in CandidateIds(candidates) :
                IF CountOfFlight(candidates, c) <= 3
                THEN RecordsOfCandidate(candidates, c) \cap kept = {}
                ELSE RecordsOfCandidate(candidates, c) \subseteq kept

\* a chunk with a candidate of exactly 3 records, which the Noise Filter
\* drops, and one of 4 or more, which it keeps
C9_Witness ==
    \E candidates \in {LastNewCandidates} :
        /\ \E c \in CandidateIds(candidates) : CountOfFlight(candidates, c) = 3
        /\ \E c \in CandidateIds(candidates) : CountOfFlight(candidates, c) >= 4
        /\ Len(remove_erroneous_single_point_flights(candidates)) \in 4..(Len(candidates) - 3)

\* the rows of the new stream that make up the new flight `id`: the rows with
\* the id, and the row without flight id right before the first of them
RowsOfNewFlight(df, id) ==
    RowsOfFlight(df, id)
    \cup {i \in 1..(Len(df) - 1) :
             /\ df[i].flight_id = NullId
             /\ df[i + 1].flight_id = id
             /\ UniqueFlightIdentifier(df[i]) = UniqueFlightIdentifier(df[i + 1])}

\* C10: every new flight of a chunk has more than 3 records in the output of
\* the chunk, also after the Gap Splitter.
C10_NewFlightsHaveMoreThanMinPoints ==
    \A new \in {LastNewStream} :
        \A id \in FlightIdsOf(new) :
            Cardinality(RowsOfNewFlight(new, id)) > min_number_of_consecutive_datapoints

\* the aircraft and OD keys of the records of the last chunk read
ChunkIdentifiers ==
    {UniqueFlightIdentifier(flight_dataframe[i]) : i \in 1..Len(flight_dataframe)}

\* the number of deltas above 6 hours between time-adjacent records of the
\* last chunk read, up to the record at a timestamp
GapsUpTo(timestamp) ==
    LET timestamps == {flight_dataframe[i].timestamp : i \in 1..Len(flight_dataframe)}
    IN  Cardinality({t2 \in timestamps :
            /\ t2 <= timestamp
            /\ \E t1 \in timestamps :
                   /\ Adjacent(timestamps, t1, t2)
                   /\ t2 - t1 > hard_gap_hours * MinutesPerHour})

\* C11: a first chunk of more than 3 records of one aircraft and one OD key,
\* with g deltas above 6 hours between time-adjacent records, is output as
\* g + 1 flights with the ids 0..g in time order, every record kept: each
\* record is output once, with the number of such deltas up to it as flight id.
C11_SingleKeyChunkIsSplitAtGapsOnly ==
    (/\ previous_flight_info_dataframe = <<>>
     /\ Cardinality(ChunkIdentifiers) = 1
     /\ Len(flight_dataframe) > 3)
    => /\ Len(output_dataframe) = Len(flight_dataframe)
       /\ \A i \in 1..Len(flight_dataframe) :
              /\ RecordOf(output_dataframe[i]) = flight_dataframe[i]
              /\ output_dataframe[i].flight_id = GapsUpTo(flight_dataframe[i].timestamp)

\* the rows of an aircraft, and whether one of them has an origin or a
\* destination
RowsOfAircraft(df, icao_address) ==
    {df[i] : i \in {j \in 1..Len(df) : df[j].icao_address = icao_address}}

HasKnownAirport(df, icao_address) ==
    \E row \in RowsOfAircraft(df, icao_address) :
        \/ row.departure_airport_icao # NullAirport
        \/ row.arrival_airport_icao # NullAirport

\* the value of the nearest record of the aircraft at or before a record that
\* has the column, or else of the nearest one after it, or else null
NearestValue(df, row, col) ==
    LET known == {r \in RowsOfAircraft(df, row.icao_address) : r[col] # NullAirport}
        before == {r \in known : r.timestamp <= row.timestamp}
    IN  IF before # {}
        THEN (CHOOSE r \in before : \A q \in before : q.timestamp <= r.timestamp)[col]
        ELSE IF known # {}
        THEN (CHOOSE r \in known : \A q \in known : r.timestamp <= q.timestamp)[col]
        ELSE NullAirport

Repaired(df, row) ==
    [row EXCEPT !.departure_airport_icao = NearestValue(df, row, "departure_airport_icao"),
                !.arrival_airport_icao = NearestValue(df, row, "arrival_airport_icao")]

\* C12: the Track Repairer keeps every record of an aircraft that has a
\* record with an origin or a record with a destination in the chunk, each
\* null origin and destination replaced by the nearest preceding value of the
\* aircraft, or by the nearest following one where none precedes.
C12_TrackRepairerKeepsRepairableAircraft ==
    \A df \in {SortByAircraftAndTime(flight_dataframe)} :
        \A filled \in {filter_and_fill_origin_destination_pair(df)} :
            \A icao_address \in 1..NumAircraft :
                HasKnownAirport(df, icao_address) =>
                    RowsOfAircraft(filled, icao_address)
                        = {Repaired(df, row) : row \in RowsOfAircraft(df, icao_address)}

\* the rows of a day file without the flight_day column
FileRecords(file) ==
    [i \in 1..Len(file) |->
        [icao_address |-> file[i].icao_address,
         timestamp |-> file[i].timestamp,
         departure_airport_icao |-> file[i].departure_airport_icao,
         arrival_airport_icao |-> file[i].arrival_airport_icao,
         flight_id |-> file[i].flight_id]]

\* the day of the year of a timestamp, and whether a file name is that day
\* written with three decimal digits
DayOfYear(timestamp) ==
    CHOOSE day \in 1..366 :
        /\ (day - 1) * HoursPerDay * MinutesPerHour <= timestamp
        /\ timestamp < day * HoursPerDay * MinutesPerHour

IsDayStrOf(day_str, timestamp) ==
    /\ Len(day_str) = 3
    /\ \A k \in 1..3 : day_str[k] \in 0..9
    /\ 100 * day_str[1] + 10 * day_str[2] + day_str[3] = DayOfYear(timestamp)

\* the rows of an output that pass the geographic filter and are of a day
UkRecordsOfDay(output, day_str) ==
    LET of_day(row) == IsUkFlight(row) /\ IsDayStrOf(day_str, row.timestamp)
    IN  SelectSeq(output, of_day)

\* C13: a day partition that exists holds, after a chunk, the records it held
\* before followed by the records of the chunk for that day: nothing is
\* overwritten, removed or de-duplicated.
C13_DayPartitionsAreAppendOnly ==
    [][\A day_str \in DOMAIN day_files :
          /\ day_str \in DOMAIN day_files'
          /\ FileRecords(day_files'[day_str])
                 = FileRecords(day_files[day_str])
                   \o UkRecordsOfDay(output_dataframe', day_str)]_vars

\* a chunk has written records to a day partition that held records before
C13_Witness ==
    \E day_str \in DOMAIN day_files :
        \E written \in {UkRecordsOfDay(output_dataframe, day_str)} :
            /\ chunks_done > 1
            /\ written # <<>>
            /\ Len(day_files[day_str]) > Len(written)

\* C14: every record of the output of a chunk that passes the geographic
\* filter is in exactly one day partition, the one named by the ordinal day
\* of its timestamp in three digits, and no partition holds a record of
\* another day.
C14_RecordsAreRoutedToTheirDay ==
    /\ \A day_str \in DOMAIN day_files :
           \A i \in 1..Len(day_files[day_str]) :
               IsDayStrOf(day_str, day_files[day_str][i].timestamp)
    /\ \A uk \in {remove_non_uk_flights(output_dataframe)} :
           \A i \in 1..Len(uk) :
               \A holding \in {{day_str \in DOMAIN day_files :
                                   \E k \in 1..Len(day_files[day_str]) :
                                       FileRecords(day_files[day_str])[k] = uk[i]}} :
                   /\ Cardinality(holding) = 1
                   /\ \A day_str \in holding : IsDayStrOf(day_str, uk[i].timestamp)

\* a chunk has written records of two days
C14_Witness ==
    \E uk \in {remove_non_uk_flights(output_dataframe)} :
        /\ \E i, j \in 1..Len(uk) : DayOfYear(uk[i].timestamp) # DayOfYear(uk[j].timestamp)
        /\ Cardinality(DOMAIN day_files) > 1

\* C15: the hard gap of the config the caller passes to identify_uk_flights
\* is the threshold of the Gap Splitter: the output of every chunk is the one
\* assign_flight_id_to_unique_flights gives with the config of the caller.
C15_CallerConfigSetsHardGap ==
    chunks_done > 0 =>
        output_dataframe
            = assign_flight_id_to_unique_flights(
                  flight_dataframe, config, previous_flight_info_dataframe)

\* the rows of the last chunk that were relabelled as continued flights
LastContinuedStream == ContinuedStream(flight_dataframe, previous_flight_info_dataframe)

\* C16: relabelling stops at the next OD-key boundary: a record of the chunk
\* is given a prior flight id only if the prior flight with that id has the
\* aircraft and OD key of the record; the records of another OD key that
\* follow a continuation go to the new stream.
C16_RelabellingStopsAtODKeyBoundary ==
    \A continued \in {LastContinuedStream} :
        \A i \in 1..Len(continued) :
            \E k \in 1..Len(previous_flight_info_dataframe) :
                \A tail \in {previous_flight_info_dataframe[k]} :
                    /\ tail.flight_id = continued[i].flight_id
                    /\ UniqueFlightIdentifier(tail) = UniqueFlightIdentifier(continued[i])

\* the open tails that the last chunk was given for an aircraft and OD key,
\* and the most recent of them
TailsOf(ufi) ==
    {previous_flight_info_dataframe[k] :
        k \in {n \in 1..Len(previous_flight_info_dataframe) :
                  UniqueFlightIdentifier(previous_flight_info_dataframe[n]) = ufi}}

MostRecentTail(ufi) ==
    CHOOSE tail \in TailsOf(ufi) :
        \A other \in TailsOf(ufi) : other.last_timestamp <= tail.last_timestamp

\* the aircraft and OD keys of the last chunk that the rule of the Continuity
\* Matcher matches: present in the prior tail state, the earliest timestamp
\* at most 6 hours after the earliest timestamp of the chunk
MatchedPairs ==
    {ufi \in ChunkIdentifiers :
        /\ TailsOf(ufi) # {}
        /\ \E i \in 1..Len(flight_dataframe) :
               /\ UniqueFlightIdentifier(flight_dataframe[i]) = ufi
               /\ \A j \in 1..Len(flight_dataframe) :
                      flight_dataframe[i].timestamp
                          <= flight_dataframe[j].timestamp + lookback_hours * MinutesPerHour}

\* the rows of the output of the last chunk that hold a record
OutputRowsOf(record) ==
    {j \in 1..Len(output_dataframe) : RecordOf(output_dataframe[j]) = record}

\* C17: every record of an aircraft and OD key matched as a continuation is
\* output once, with the flight id of the most recent open tail of that
\* aircraft and OD key.
C17_ContinuationAttachesToOneTail ==
    \A ufi \in MatchedPairs :
        \A recent \in {MostRecentTail(ufi)} :
            \A i \in 1..Len(flight_dataframe) :
                UniqueFlightIdentifier(flight_dataframe[i]) = ufi =>
                    \A rows \in {OutputRowsOf(flight_dataframe[i])} :
                        /\ Cardinality(rows) = 1
                        /\ \A j \in rows : output_dataframe[j].flight_id = recent.flight_id

\* the rows the Continuity Matcher joined for the last chunk: the prior
\* flights it matched to an aircraft and OD key of the chunk
LastContinuedFlightsInfo ==
    IF flight_dataframe = <<>> \/ previous_flight_info_dataframe = <<>> THEN <<>>
    ELSE LET filled == filter_and_fill_origin_destination_pair(
                           SortByAircraftAndTime(flight_dataframe))
         IN  ContinuedFlightsInfo(
                 previous_flight_info_dataframe, filled, NextFlightPerAircraft(filled))

LastMatchedIdentifiers ==
    {LastContinuedFlightsInfo[k].unique_flight_identifier :
        k \in 1..Len(LastContinuedFlightsInfo)}

\* C18: the Continuity Matcher matches an aircraft and OD key of the chunk as
\* a continuation if and only if the pair is in the prior Flight Tail State
\* and its earliest timestamp in the chunk is at most 6 hours after the
\* earliest timestamp of the chunk.
C18_MatchedIffInTailAndWithinLookback ==
    LastMatchedIdentifiers = MatchedPairs

\* a pair is matched whose earliest timestamp is exactly 6 hours after the
\* earliest timestamp of the chunk
C18_Witness ==
    \E ufi \in LastMatchedIdentifiers :
        \E i \in 1..Len(flight_dataframe) :
            /\ \A j \in 1..Len(flight_dataframe) :
                   flight_dataframe[i].timestamp <= flight_dataframe[j].timestamp
            /\ FirstTimestamp(flight_dataframe, ufi)
                   = flight_dataframe[i].timestamp + lookback_hours * MinutesPerHour

\* the new flights of the last chunk as the Gap Splitter was given them, row
\* for row with LastNewStream: first_flight_id is the candidate flight of a
\* row, renumbered after the Noise Filter
LastGapSplitterInput ==
    AddNextFlightId(
        remove_erroneous_single_point_flights(LastNewCandidates),
        NextFlightId(previous_flight_info_dataframe))

\* C19: a record of a new flight starts a new sub-flight (has another flight
\* id than the record right before it in its candidate flight) if and only if
\* it is more than 6 hours after that record.
C19_SplitIffDeltaAboveHardGap ==
    \A candidates \in {LastGapSplitterInput} :
        \A new \in {LastNewStream} :
            \A i \in 2..Len(candidates) :
                candidates[i].first_flight_id = candidates[i - 1].first_flight_id =>
                    ((new[i].flight_id # new[i - 1].flight_id)
                     <=> (candidates[i].timestamp - candidates[i - 1].timestamp
                             > hard_gap_hours * MinutesPerHour))

\* no delta above 6 hours lies between two rows of a dataframe
NoHardGapBetween(df, i, j) ==
    \A k \in (i + 1)..j :
        df[k].timestamp - df[k - 1].timestamp <= hard_gap_hours * MinutesPerHour

\* C20: two records of the new flights of a chunk have the same final flight
\* id if and only if they are in the same candidate flight and no delta
\* above 6 hours lies between them.
C20_SameFlightIdIffSameCandidateAndNoGap ==
    \A candidates \in {LastGapSplitterInput} :
        \A new \in {LastNewStream} :
            \A i, j \in 1..Len(candidates) :
                i < j =>
                    ((new[i].flight_id # NullId /\ new[i].flight_id = new[j].flight_id)
                     <=> (/\ candidates[i].first_flight_id = candidates[j].first_flight_id
                          /\ NoHardGapBetween(candidates, i, j)))

\* C21: the candidate flights of a chunk are the maximal runs of one OD key.
\* Over the new-stream records sorted by (aircraft, timestamp) the candidate
\* id of the first record is 0, and the id of every other record is the id
\* of the record before it when the two have the same (aircraft, origin,
\* destination) key and one more when they differ.
CandidateKey(row) ==
    <<row.icao_address, row.departure_airport_icao, row.arrival_airport_icao>>

\* A run of up to MaxQuietChunks chunks that read MaxQuietBlocks blocks in
\* all, each a minute after the last record read: a flight of one chunk can
\* be absent from the next chunk and back in the chunk after it, within the
\* lookback horizon.
CloseBlocks == {b \in Blocks : b.gap = 1}

ProcessCloseChunk ==
    /\ chunks_done < MaxQuietChunks
    /\ \E blocks \in BlockSeqs(CloseBlocks, MaxQuietBlocks - blocks_read) :
           ProcessFiles(blocks)

NextCloseChunks == ProcessCloseChunk

SpecCloseChunks == Init /\ [][NextCloseChunks]_vars


\* A run of chunks of one block at most, a minute after the last record read,
\* with or without airports: a chunk can be empty, or lose all its records
\* to the filter on the airports, before or after a chunk that has output.
CloseMissingBlocks == {b \in MissingBlocks : b.gap = 1}

ProcessSmallChunk ==
    /\ chunks_done < MaxChunks
    /\ \E blocks \in BlockSeqs(CloseMissingBlocks, 1) :
       \E df \in {RowsOfMissingBlocks(blocks, LastTimeOf(all_input, 0))} :
           ProcessDataframe(df, Len(blocks))

NextSmallChunks == ProcessSmallChunk

SpecSmallChunks == Init /\ [][NextSmallChunks]_vars


C21_CandidateIdsCountKeyChanges ==
    \A candidates \in {LastNewCandidates} :
        \A i \in 1..Len(candidates) :
            IF i = 1
            THEN candidates[i].first_flight_id = 0
            ELSE /\ RowLE(candidates[i - 1], candidates[i])
                 /\ candidates[i].first_flight_id =
                        candidates[i - 1].first_flight_id
                        + (IF CandidateKey(candidates[i]) = CandidateKey(candidates[i - 1])
                           THEN 0 ELSE 1)

\* a chunk whose new stream returns to a key it has left: three runs, the
\* first and the third of one key
C21_Witness ==
    \E candidates \in {LastNewCandidates} :
        \E i, j, k \in 1..Len(candidates) :
            /\ j = i + 1
            /\ j < k
            /\ CandidateKey(candidates[i]) = CandidateKey(candidates[j])
            /\ CandidateKey(candidates[k - 1]) # CandidateKey(candidates[k])
            /\ CandidateKey(candidates[k]) = CandidateKey(candidates[i])
            /\ candidates[k].first_flight_id = 2

\* the records of the candidate flights with more than 3 records, in order
SurvivingCandidates(candidates) ==
    LET survives(r) ==
            Cardinality(RecordsOfCandidate(candidates, r.first_flight_id)) > 3
    IN  SelectSeq(candidates, survives)

\* C22: after noise removal the ids of the surviving candidates are the
\* dense sequence 0, 1, ..., k-1 in (aircraft, timestamp) order, re-based by
\* the next_flight_id of the chunk: the first surviving record has id
\* next_flight_id, the records of one candidate share an id, and from a
\* record to the next the id stays or goes up by one, by one when the OD key
\* changes.
C22_SurvivorsAreRenumberedDenseAndRebased ==
    \A survivors \in {SurvivingCandidates(LastNewCandidates)} :
    \A based \in {LastGapSplitterInput} :
    \A next_flight_id \in {NextFlightId(previous_flight_info_dataframe)} :
        /\ Len(based) = Len(survivors)
        /\ \A i \in 1..Len(based) :
            /\ CandidateKey(based[i]) = CandidateKey(survivors[i])
            /\ based[i].timestamp = survivors[i].timestamp
            /\ IF i = 1
               THEN based[i].first_flight_id = next_flight_id
               ELSE /\ RowLE(based[i - 1], based[i])
                    /\ based[i].first_flight_id - based[i - 1].first_flight_id \in {0, 1}
                    /\ survivors[i].first_flight_id = survivors[i - 1].first_flight_id
                         => based[i].first_flight_id = based[i - 1].first_flight_id
                    /\ CandidateKey(survivors[i]) # CandidateKey(survivors[i - 1])
                         => based[i].first_flight_id = based[i - 1].first_flight_id + 1

\* a second chunk whose new stream loses its first candidate to the filter
\* and keeps the next one, renumbered 0 and re-based by a next_flight_id
\* above 0
C22_Witness ==
    \E survivors \in {SurvivingCandidates(LastNewCandidates)} :
    \E based \in {LastGapSplitterInput} :
        /\ chunks_done = 2
        /\ NextFlightId(previous_flight_info_dataframe) > 0
        /\ based # <<>>
        /\ survivors[1].first_flight_id = 1
        /\ based[1].first_flight_id = NextFlightId(previous_flight_info_dataframe)

\* the timestamps of the output rows of the (flight_id, aircraft, origin,
\* destination) group of `entry`
GroupTimestamps(df, entry) ==
    {df[i].timestamp : i \in {j \in 1..Len(df) :
        /\ df[j].flight_id = entry.flight_id
        /\ df[j].icao_address = entry.icao_address
        /\ df[j].departure_airport_icao = entry.departure_airport_icao
        /\ df[j].arrival_airport_icao = entry.arrival_airport_icao}}

TailHorizon(df) == Max({df[i].timestamp : i \in 1..Len(df)}) - 6 * 60

\* C23: the Flight Tail State after a chunk has exactly one entry per
\* (flight_id, aircraft, origin, destination) group of the full output of the
\* chunk whose largest timestamp is no earlier than the largest timestamp of
\* the output minus 6 hours, the boundary included, and the entry carries the
\* largest timestamp of its group.
C23_TailStateIsTheGroupsWithinSixHours ==
    \A output \in {output_dataframe} :
    \A tail \in {previous_chunk_flight_info_dataframe} :
        /\ \A i \in 1..Len(tail) :
            /\ GroupTimestamps(output, tail[i]) # {}
            /\ tail[i].last_timestamp = Max(GroupTimestamps(output, tail[i]))
            /\ tail[i].last_timestamp >= TailHorizon(output)
            /\ \A j \in 1..Len(tail) :
                   GroupTimestamps(output, tail[j]) = GroupTimestamps(output, tail[i])
                   /\ tail[j].flight_id = tail[i].flight_id
                   /\ UniqueFlightIdentifier(tail[j]) = UniqueFlightIdentifier(tail[i])
                       => j = i
        /\ \A k \in 1..Len(output) :
               Max(GroupTimestamps(output, output[k])) >= TailHorizon(output)
                   => \E i \in 1..Len(tail) :
                          /\ tail[i].flight_id = output[k].flight_id
                          /\ UniqueFlightIdentifier(tail[i]) = UniqueFlightIdentifier(output[k])

\* a chunk whose output has a group that ends exactly 6 hours before the last
\* record of the output: the group is in the tail state
C23_Witness ==
    /\ output_dataframe # <<>>
    /\ \E i \in 1..Len(previous_chunk_flight_info_dataframe) :
           /\ previous_chunk_flight_info_dataframe[i].last_timestamp
                  = TailHorizon(output_dataframe)
           /\ previous_chunk_flight_info_dataframe[i].flight_id # NullId

\* the records of the chunk that have both airports
RecordsWithBothAirports(df) ==
    {df[i] : i \in {j \in 1..Len(df) :
        /\ df[j].departure_airport_icao # NullAirport
        /\ df[j].arrival_airport_icao # NullAirport}}

\* C24: when the prior Flight Tail State is empty (first chunk, or a chunk
\* after a chunk without output) the continued stream is empty, every
\* repaired record of the chunk is in a new candidate flight, and the new
\* flight ids are numbered from 0: the first candidate flight that passes
\* the Noise Filter has id 0.
C24_EmptyTailMakesEveryFlightNewFromZero ==
    previous_flight_info_dataframe = <<>> =>
        /\ LastContinuedStream = <<>>
        /\ \A candidates \in {LastNewCandidates} :
               {[icao_address |-> candidates[i].icao_address,
                 timestamp |-> candidates[i].timestamp,
                 departure_airport_icao |-> candidates[i].departure_airport_icao,
                 arrival_airport_icao |-> candidates[i].arrival_airport_icao] :
                    i \in 1..Len(candidates)}
               = RecordsWithBothAirports(flight_dataframe)
        /\ \A based \in {LastGapSplitterInput} :
               based # <<>> => based[1].first_flight_id = 0

\* a second chunk after a chunk without output: its flights are numbered
\* from 0 again
C24_Witness ==
    /\ chunks_done = 2
    /\ earlier_outputs = <<<<>>>>
    /\ Len(all_input) > Len(flight_dataframe)
    /\ previous_flight_info_dataframe = <<>>
    /\ 0 \in FlightIdsOf(output_dataframe)

\* the output of the last chunk as an input of the Gap Splitter: the records
\* that have a flight id, each with its flight id as base flight
OutputAsBaseFlights ==
    LET has_flight_id(r) == r.flight_id # NullId
        flights == SelectSeq(output_dataframe, has_flight_id)
    IN  [i \in 1..Len(flights) |->
            [icao_address |-> flights[i].icao_address,
             timestamp |-> flights[i].timestamp,
             departure_airport_icao |-> flights[i].departure_airport_icao,
             arrival_airport_icao |-> flights[i].arrival_airport_icao,
             first_flight_id |-> flights[i].flight_id]]

\* C25: the Gap Splitter applied again to the output of a chunk, each final
\* flight id taken as the base flight, finds no delta above the threshold
\* inside a flight and gives every record the flight id it has: the output
\* is a fixed point.
C25_GapSplitterIsIdempotentOnOutput ==
    \A base \in {SortByAircraftAndTime(OutputAsBaseFlights)} :
        \A i \in 1..Len(base) :
            /\ ~TimeGapFlightIncrement(base, FlightSegmentationConfig, i)
            /\ FinalFlightId(base, FlightSegmentationConfig, i) \in {NullId, base[i].first_flight_id}

\* every record of the dataframe lacks an airport (an empty dataframe too)
LosesAllRecords(df) ==
    \A i \in 1..Len(df) :
        \/ df[i].departure_airport_icao = NullAirport
        \/ df[i].arrival_airport_icao = NullAirport

\* C26: a chunk with no records, or whose records are all removed by the
\* Track Repairer, is processed like any chunk: it yields an empty output and
\* an empty tail state, no day partition is written for it, and the loop goes
\* on to the next chunk.
C26_EmptyChunkIsNotAnError ==
    [][LosesAllRecords(flight_dataframe') =>
          /\ output_dataframe' = <<>>
          /\ previous_chunk_flight_info_dataframe' = <<>>
          /\ day_files' = day_files
          /\ chunks_done' = chunks_done + 1]_vars

\* the records read before the last chunk
EarlierInput == SubSeq(all_input, 1, Len(all_input) - Len(flight_dataframe))

\* a chunk with output and a day partition after a chunk whose records were
\* all removed, which left no output and an empty tail state
C26_Witness ==
    /\ chunks_done = 2
    /\ EarlierInput # <<>>
    /\ LosesAllRecords(EarlierInput)
    /\ earlier_outputs = <<<<>>>>
    /\ previous_flight_info_dataframe = <<>>
    /\ output_dataframe # <<>>
    /\ day_files # <<>>

\* the outputs of the chunk before the last one and of the chunk before that
OutputOfChunkBefore == earlier_outputs[Len(earlier_outputs)]
OutputOfSecondChunkBefore == earlier_outputs[Len(earlier_outputs) - 1]

KeysOf(df) == {CandidateKey(df[i]) : i \in 1..Len(df)}

\* the aircraft and OD keys of the flights open after the output `df`: the
\* flights whose last record is within 6 hours of the last record of `df`
OpenKeysAfter(df) ==
    {CandidateKey(df[i]) : i \in {j \in 1..Len(df) :
        /\ df[j].flight_id # NullId
        /\ Max(GroupTimestamps(df, df[j])) >= TailHorizon(df)}}

\* a flight open after chunk n-1 without a record in the output of chunk n
\* is not matched as a continuation in chunk n+1
AbsentFlightIsNotMatched ==
    chunks_done >= 3 =>
        \A u \in OpenKeysAfter(OutputOfSecondChunkBefore) \ KeysOf(OutputOfChunkBefore) :
            u \notin LastMatchedIdentifiers

\* C27: the tail state handed to chunk n+1 holds only flights with a record
\* in the output of chunk n; a flight open after chunk n-1 without a record
\* in chunk n is not continued in chunk n+1: its records of chunk n+1 are in
\* the new stream and get a new flight id, whatever their distance to its
\* last record.
C27_OnlyFlightsOfTheLastChunkAreContinued ==
    /\ chunks_done >= 2 =>
           \A i \in 1..Len(previous_flight_info_dataframe) :
               \E j \in 1..Len(OutputOfChunkBefore) :
                   /\ OutputOfChunkBefore[j].flight_id
                          = previous_flight_info_dataframe[i].flight_id
                   /\ CandidateKey(OutputOfChunkBefore[j])
                          = CandidateKey(previous_flight_info_dataframe[i])
    /\ AbsentFlightIsNotMatched
    /\ chunks_done >= 3 =>
           \A u \in OpenKeysAfter(OutputOfSecondChunkBefore) \ KeysOf(OutputOfChunkBefore) :
               u \notin KeysOf(LastContinuedStream)

\* the surviving records i and j are of two candidate flights of one aircraft
\* and OD key, and every candidate flight between the two was dropped
SeparatedByNoiseOnly(survivors, i, j) ==
    /\ i < j
    /\ CandidateKey(survivors[i]) = CandidateKey(survivors[j])
    /\ survivors[i].first_flight_id < survivors[j].first_flight_id
    /\ \A k \in 1..Len(survivors) :
           ~(/\ survivors[i].first_flight_id < survivors[k].first_flight_id
             /\ survivors[k].first_flight_id < survivors[j].first_flight_id)

\* C28: two surviving candidate flights of one aircraft with the same OD key
\* and only dropped candidates between them get the same id from the
\* renumbering of the Noise Filter; their records are then apart only where
\* the Gap Splitter finds a delta above the threshold: two of their records
\* that have a flight id have the same one exactly when no delta above 6
\* hours lies between them.
C28_NoiseRenumberingMergesRuns ==
    \A survivors \in {SurvivingCandidates(LastNewCandidates)} :
    \A renumbered \in {remove_erroneous_single_point_flights(LastNewCandidates)} :
    \A new \in {LastNewStream} :
        \A i, j \in 1..Len(survivors) :
            SeparatedByNoiseOnly(survivors, i, j) =>
                /\ renumbered[i].timestamp = survivors[i].timestamp
                /\ renumbered[j].timestamp = survivors[j].timestamp
                /\ renumbered[i].first_flight_id = renumbered[j].first_flight_id
                /\ (new[i].flight_id # NullId /\ new[j].flight_id # NullId) =>
                       ((new[i].flight_id = new[j].flight_id)
                           <=> NoHardGapBetween(renumbered, i, j))

\* a chunk with two long runs of one key around a short run of another key:
\* the two are one flight in the output
C28_Witness ==
    \E survivors \in {SurvivingCandidates(LastNewCandidates)} :
        \E i, j \in 1..Len(survivors) :
            /\ SeparatedByNoiseOnly(survivors, i, j)
            /\ survivors[j].first_flight_id = survivors[i].first_flight_id + 2
            /\ \E k, l \in 1..Len(output_dataframe) :
                   /\ output_dataframe[k].timestamp = survivors[i].timestamp
                   /\ output_dataframe[l].timestamp = survivors[j].timestamp
                   /\ output_dataframe[k].flight_id # NullId
                   /\ output_dataframe[k].flight_id = output_dataframe[l].flight_id

\* the tail states with the entries of `tail`, in its order, that differ from
\* it in last_timestamp only: any of the entries is dated at minute 0
TailsDatedOtherwise(tail) ==
    {[i \in 1..Len(tail) |->
         [tail[i] EXCEPT !.last_timestamp = IF redated[i] THEN 0 ELSE @]] :
        redated \in [1..Len(tail) -> BOOLEAN]}

\* C29: the Continuity Matcher never consults the last timestamp of a tail:
\* the last chunk, processed with any tail state that differs from the one it
\* was given in last_timestamp only, has the same continued stream, the same
\* new stream and the same output.
C29_MatcherIgnoresLastTimestamp ==
    \A tail \in TailsDatedOtherwise(previous_flight_info_dataframe) :
        /\ ContinuedStream(flight_dataframe, tail) = LastContinuedStream
        /\ NewStream(flight_dataframe, FlightSegmentationConfig, tail) = LastNewStream
        /\ assign_flight_id_to_unique_flights(
               flight_dataframe, FlightSegmentationConfig, tail) = output_dataframe

\* a record is continued with the flight id of a tail whose last record is
\* more than 6 hours before it
C29_Witness ==
    \E i \in 1..Len(previous_flight_info_dataframe) :
    \E k \in 1..Len(output_dataframe) :
        /\ previous_flight_info_dataframe[i].flight_id # NullId
        /\ previous_flight_info_dataframe[i].last_timestamp > 0
        /\ CandidateKey(previous_flight_info_dataframe[i]) \in LastMatchedIdentifiers
        /\ CandidateKey(output_dataframe[k]) = CandidateKey(previous_flight_info_dataframe[i])
        /\ output_dataframe[k].flight_id = previous_flight_info_dataframe[i].flight_id
        /\ output_dataframe[k].timestamp - previous_flight_info_dataframe[i].last_timestamp
               > 6 * 60

\* the flights the Gap Splitter makes of the rows it is given: a flight
\* starts at the first row of every candidate and at every row more than 6
\* hours after the row before it in its candidate
StartsNewFlight(based, i) ==
    \/ \A j \in 1..(i - 1) : based[j].first_flight_id # based[i].first_flight_id
    \/ \E j \in 1..(i - 1) :
           /\ based[j].first_flight_id = based[i].first_flight_id
           /\ \A k \in (j + 1)..(i - 1) : based[k].first_flight_id # based[i].first_flight_id
           /\ based[i].timestamp - based[j].timestamp > 6 * 60

NumberOfNewFlights(based) ==
    Cardinality({i \in 1..Len(based) : StartsNewFlight(based, i)})

Successors(start, count) == {start + n : n \in 0..(count - 1)}

\* C30: the flight ids of the new flights of a chunk are exactly the
\* consecutive integers next_flight_id, ..., next_flight_id + m - 1, m the
\* number of new flights after gap splitting; they do not decrease in
\* (aircraft, timestamp) order, and each is above every flight id of the
\* prior tail state, so none is the id of a continued flight of the chunk.
C30_NewFlightIdsAreConsecutiveFromNextFlightId ==
    \A new \in {LastNewStream} :
    \A next_flight_id \in {NextFlightId(previous_flight_info_dataframe)} :
        /\ FlightIdsOf(new)
               = Successors(next_flight_id, NumberOfNewFlights(LastGapSplitterInput))
        /\ \A i, j \in 1..Len(new) :
               (i < j /\ new[i].flight_id # NullId /\ new[j].flight_id # NullId)
                   => new[i].flight_id <= new[j].flight_id
        /\ \A id \in FlightIdsOf(new) :
               /\ \A p \in FlightIdsOf(previous_flight_info_dataframe) : id > p
               /\ id \notin FlightIdsOf(LastContinuedStream)

\* what of C30 does not depend on the first record of a flight: the order of
\* the ids and their distance to the ids of the tail state
NewFlightIdsAreAboveTheTail ==
    \A new \in {LastNewStream} :
        /\ \A i, j \in 1..Len(new) :
               (i < j /\ new[i].flight_id # NullId /\ new[j].flight_id # NullId)
                   => new[i].flight_id <= new[j].flight_id
        /\ \A id \in FlightIdsOf(new) :
               /\ id >= NextFlightId(previous_flight_info_dataframe)
               /\ \A p \in FlightIdsOf(previous_flight_info_dataframe) : id > p
               /\ id \notin FlightIdsOf(LastContinuedStream)

====
